---- MODULE Spec2Model ----
(***************************************************************************)
(* A model of src/maze.py: the Maze class of PyMaze.                       *)
(*                                                                         *)
(* The state is the Maze object's attributes (dimension, density, mode,    *)
(* maze, path, location), the local variables of generate_maze (x, y and   *)
(* its set of walked cells), the locals of game (keystate, new_location)   *)
(* and the position of the running method (pc).  History variables record  *)
(* what the search has done so far (steps, marks, maze0), which call on    *)
(* the grid is running (run) and the steps of the first search (trace).    *)
(***************************************************************************)
EXTENDS Integers, Sequences, FiniteSets, TLC

VARIABLES dimx, dimy, density, mode, pc,
          x, y, genPath,
          maze, path, location,
          keystate, new_location,
          steps, marks, maze0, run, trace

vars == <<dimx, dimy, density, mode, pc, x, y, genPath, maze, path, location,
          keystate, new_location, steps, marks, maze0, run, trace>>

(* ------------------------------ bounds --------------------------------- *)
MaxDimX == 3
MaxDimY == 3
MaxCells == 12
MaxGameCells == 6
MaxMoves == 4
MaxTwiceCells == 6
MaxCalls == 2
MaxGenCells == 9

(* --------------------------- program constants ------------------------- *)
EMPTY == 0
OBSTACLE == 1
ON_PATH == 2
EXPLORED == 3
ROBOT == 4

SILENT == "silent"
GRAPHICAL_FULL == "graphical_full"
GRAPHICAL_LIMITED == "graphical_limited"
Modes == {SILENT, GRAPHICAL_FULL, GRAPHICAL_LIMITED}

UP == [x |-> -1, y |-> 0]
DOWN == [x |-> 1, y |-> 0]
RIGHT == [x |-> 0, y |-> 1]
LEFT == [x |-> 0, y |-> -1]

\* SEARCH_ORDER with its first two directions exchanged.
SEARCH_ORDER_RightFirst == <<RIGHT, DOWN, UP, LEFT>>

SEARCH_ORDER == <<DOWN, RIGHT, UP, LEFT>>

\* The keys of KEY_PRESS_DIRECTION in the order the dictionary is iterated
\* (the order of the literal: K_UP, K_DOWN, K_RIGHT, K_LEFT).
KEY_PRESS_DIRECTION == <<UP, DOWN, RIGHT, LEFT>>

\* Python's None (find_next_step / get_new_coordinates found no move).
None == << >>

\* self.maze before generate_maze has built it.
NoGrid == << >>

(* ------------------------------- inputs -------------------------------- *)
\* density in percent: below 0, 0, strictly inside (0,1), 1, above 1.
Densities == {-50, 0, 50, 100, 150}

(* ------------------------------- helpers ------------------------------- *)
Cells(w, h) == (0 .. (w - 1)) \X (0 .. (h - 1))

Origin == <<0, 0>>

Goal == <<dimx - 1, dimy - 1>>

InBounds(c) == 0 <= c[1] /\ c[1] < dimx /\ 0 <= c[2] /\ c[2] < dimy

Move(loc, d) == <<loc[1] + d.x, loc[2] + d.y>>

\* The outcomes of "random() < p" for random() in [0, 1); p in percent.
RandomBelow(p) == IF p <= 0 THEN {FALSE} ELSE IF p >= 100 THEN {TRUE} ELSE BOOLEAN

\* Events a poll of pygame.event.get() can leave in eventType: TRUE is QUIT.
\* Only the graphical modes poll.
QuitEvents == IF mode = SILENT THEN {FALSE} ELSE BOOLEAN

(* ---------------------------- generate_maze ---------------------------- *)
\* ClearPath with the final loop over the walked cells left out.
ClearPath_Skipped(grid, cells) == grid

\* for x, y in path: self.maze[x][y] = EMPTY
ClearPath(grid, cells) == [c \in DOMAIN grid |-> IF c \in cells THEN EMPTY ELSE grid[c]]

\* The grid filled by the obstacle draws: obstacles is the set of cells
\* whose draw "random() < self.density" succeeded.
FillGrid(obstacles) ==
    [c \in Cells(dimx, dimy) |-> IF c \in obstacles THEN OBSTACLE ELSE EMPTY]

\* The sets of cells the obstacle draws can select under self.density.
ObstacleDraws ==
    {s \in SUBSET Cells(dimx, dimy) :
        \A c \in Cells(dimx, dimy) : (c \in s) \in RandomBelow(density)}

(* ------------------------------- state --------------------------------- *)
ZeroMarks(w, h) == [c \in Cells(w, h) |-> 0]

\* A call Maze(dimx, dimy, seed, density) about to run.
Init ==
    /\ dimx \in 0 .. MaxDimX
    /\ dimy \in 0 .. MaxDimY
    /\ density \in Densities
    /\ mode = GRAPHICAL_LIMITED
    /\ pc = "new"
    /\ x = 0 /\ y = 0 /\ genPath = {}
    /\ maze = NoGrid
    /\ path = << >>
    /\ location = Origin
    /\ keystate = {}
    /\ new_location = None
    /\ steps = 0
    /\ marks = << >>
    /\ maze0 = NoGrid
    /\ run = 1
    /\ trace = << >>

\* Maze.__init__ up to the first test of generate_maze's loop.
Construct ==
    /\ pc = "new"
    /\ pc' = "walk"
    /\ mode' = GRAPHICAL_LIMITED
    /\ x' = 0 /\ y' = 0
    /\ genPath' = {<<0, 0>>}
    /\ UNCHANGED <<dimx, dimy, density, maze, path, location, keystate,
                   new_location, steps, marks, maze0, run, trace>>

\* GenStep without the two tests that clamp the walk at the last row and
\* the last column.
GenStep_Unclamped ==
    /\ pc = "walk"
    /\ <<x, y>> # <<dimx - 1, dimy - 1>>
    /\ \E r \in RandomBelow(50) :
         IF r
         THEN x' = x + 1 /\ y' = y /\ genPath' = genPath \cup {<<x + 1, y>>}
         ELSE y' = y + 1 /\ x' = x /\ genPath' = genPath \cup {<<x, y + 1>>}
    /\ UNCHANGED <<dimx, dimy, density, mode, pc, maze, path, location,
                   keystate, new_location, steps, marks, maze0, run, trace>>

\* One iteration of the path-laying loop; r is the draw "random() < 0.5".
GenStep ==
    /\ pc = "walk"
    /\ <<x, y>> # <<dimx - 1, dimy - 1>>
    /\ \E r \in RandomBelow(50) :
         IF r
         THEN IF x < dimx - 1
              THEN x' = x + 1 /\ y' = y /\ genPath' = genPath \cup {<<x + 1, y>>}
              ELSE UNCHANGED <<x, y, genPath>>
         ELSE IF y < dimy - 1
              THEN y' = y + 1 /\ x' = x /\ genPath' = genPath \cup {<<x, y + 1>>}
              ELSE UNCHANGED <<x, y, genPath>>
    /\ UNCHANGED <<dimx, dimy, density, mode, pc, maze, path, location,
                   keystate, new_location, steps, marks, maze0, run, trace>>

\* The rest of generate_maze (obstacle draws, then the walked cells forced
\* to EMPTY) and the end of __init__ (empty stack, location (0, 0)).
GenFill ==
    /\ pc = "walk"
    /\ <<x, y>> = <<dimx - 1, dimy - 1>>
    /\ \E obstacles \in ObstacleDraws :
         maze' = ClearPath(FillGrid(obstacles), genPath)
    /\ path' = << >>
    /\ location' = <<0, 0>>
    /\ pc' = "ready"
    /\ UNCHANGED <<dimx, dimy, density, mode, x, y, genPath, keystate,
                   new_location, steps, marks, maze0, run, trace>>

\* set_mode(mode), called between construction and solve()/game().
SetMode ==
    /\ pc = "ready"
    /\ \E m \in Modes : mode' = m
    /\ UNCHANGED <<dimx, dimy, density, pc, x, y, genPath, maze, path,
                   location, keystate, new_location, steps, marks, maze0, run, trace>>

(* -------------------------------- solve -------------------------------- *)
RECURSIVE FirstEmpty(_, _, _)
\* The loop of find_next_step from the k-th direction of SEARCH_ORDER on.
FirstEmpty(m, loc, k) ==
    IF k > Len(SEARCH_ORDER)
    THEN None
    ELSE LET n == Move(loc, SEARCH_ORDER[k])
         IN  IF InBounds(n) /\ m[n] = EMPTY THEN n ELSE FirstEmpty(m, loc, k + 1)

RECURSIVE FirstUnblocked(_, _, _)
\* find_next_step's loop with get_new_coordinates' test of the cell
\* (EXPLORED cells are entered again).
FirstUnblocked(m, loc, k) ==
    IF k > Len(SEARCH_ORDER)
    THEN None
    ELSE LET n == Move(loc, SEARCH_ORDER[k])
         IN  IF InBounds(n) /\ m[n] \in {EMPTY, EXPLORED}
             THEN n
             ELSE FirstUnblocked(m, loc, k + 1)

find_next_step_Revisits(m, loc) == FirstUnblocked(m, loc, 1)

\* find_next_step skipping the first direction when a display is attached.
find_next_step_ModeDependent(m, loc) ==
    IF mode = SILENT THEN FirstEmpty(m, loc, 1) ELSE FirstEmpty(m, loc, 2)

\* What find_next_step returns: the first in-bounds EMPTY neighbour, or None.
find_next_step(m, loc) == FirstEmpty(m, loc, 1)

\* Advance pushing the cell moved to instead of the cell left.
Advance_PushNew(m, p, loc, new) ==
    [maze     |-> [[m EXCEPT ![new] = ROBOT] EXCEPT ![loc] = ON_PATH],
     path     |-> Append(p, new),
     location |-> new,
     crashed  |-> FALSE]

\* Advance leaving the cell moved from ROBOT instead of ON_PATH.
Advance_LeavesRobot(m, p, loc, new) ==
    [maze     |-> [m EXCEPT ![new] = ROBOT],
     path     |-> Append(p, loc),
     location |-> new,
     crashed  |-> FALSE]

\* The else branch of the loop body (a neighbour new was found and marked
\* ROBOT by find_next_step): the left cell joins the path.
Advance(m, p, loc, new) ==
    [maze     |-> [[m EXCEPT ![new] = ROBOT] EXCEPT ![loc] = ON_PATH],
     path     |-> Append(p, loc),
     location |-> new,
     crashed  |-> FALSE]

\* Backtrack leaving the dead end EMPTY instead of EXPLORED.
Backtrack_Unmarked(m, p, loc) ==
    LET m1 == [m EXCEPT ![loc] = EMPTY]
    IN  IF p = << >>
        THEN [maze |-> m1, path |-> p, location |-> loc, crashed |-> TRUE]
        ELSE [maze     |-> [m1 EXCEPT ![p[Len(p)]] = ROBOT],
              path     |-> SubSeq(p, 1, Len(p) - 1),
              location |-> p[Len(p)],
              crashed  |-> FALSE]

\* Backtrack not marking the cell it pops ROBOT.
Backtrack_NoRobot(m, p, loc) ==
    LET m1 == [m EXCEPT ![loc] = EXPLORED]
    IN  IF p = << >>
        THEN [maze |-> m1, path |-> p, location |-> loc, crashed |-> TRUE]
        ELSE [maze     |-> m1,
              path     |-> SubSeq(p, 1, Len(p) - 1),
              location |-> p[Len(p)],
              crashed  |-> FALSE]

\* Backtrack popping the stack without moving back to the popped cell.
Backtrack_StaysPut(m, p, loc) ==
    LET m1 == [m EXCEPT ![loc] = EXPLORED]
    IN  IF p = << >>
        THEN [maze |-> m1, path |-> p, location |-> loc, crashed |-> TRUE]
        ELSE [maze     |-> [m1 EXCEPT ![p[Len(p)]] = ROBOT],
              path     |-> SubSeq(p, 1, Len(p) - 1),
              location |-> loc,
              crashed  |-> FALSE]

\* The dead-end branch: mark EXPLORED, pop, mark the popped cell ROBOT.
\* self.path is a coinor.blimpy Stack (an imported library): pop() of the
\* empty stack raises, and had it returned None instead, the indexing of
\* self.location on the next line would raise; either way an exception
\* leaves solve() with the dead end already marked (crashed).
Backtrack(m, p, loc) ==
    LET m1 == [m EXCEPT ![loc] = EXPLORED]
    IN  IF p = << >>
        THEN [maze |-> m1, path |-> p, location |-> loc, crashed |-> TRUE]
        ELSE [maze     |-> [m1 EXCEPT ![p[Len(p)]] = ROBOT],
              path     |-> SubSeq(p, 1, Len(p) - 1),
              location |-> p[Len(p)],
              crashed  |-> FALSE]

\* The test that ends the loop.
Finished(m, loc) == m[<<0, 0>>] = EXPLORED \/ loc = <<dimx - 1, dimy - 1>>

\* marks after a step from grid m to grid m2: one more for each cell that
\* the step set to ROBOT.
Marked(mk, m, m2) ==
    [c \in DOMAIN mk |-> IF m2[c] = ROBOT /\ m[c] # ROBOT THEN mk[c] + 1 ELSE mk[c]]

\* trace after an iteration of call number n that left the state r: the
\* iterations of the first call are recorded.
Traced(tr, n, r) == IF n = 1 THEN Append(tr, r) ELSE tr

\* solve() up to the first test of its loop.
SolveStart ==
    /\ pc = "ready"
    /\ location' = <<0, 0>>
    /\ maze' = [maze EXCEPT ![<<0, 0>>] = ROBOT]
    /\ pc' = "search"
    /\ steps' = 0
    /\ maze0' = maze
    /\ marks' = [ZeroMarks(dimx, dimy) EXCEPT ![<<0, 0>>] = 1]
    /\ x' = 0 /\ y' = 0 /\ genPath' = {}
    /\ UNCHANGED <<dimx, dimy, density, mode, path, keystate, new_location, run, trace>>

\* One iteration of solve()'s loop; q tells whether the poll of this
\* iteration left QUIT in eventType.
SolveStep ==
    /\ pc = "search"
    /\ LET new == find_next_step(maze, location)
           r   == IF new = None
                  THEN Backtrack(maze, path, location)
                  ELSE Advance(maze, path, location, new)
       IN  /\ new_location' = new
           /\ maze' = r.maze
           /\ location' = r.location
           /\ marks' = Marked(marks, maze, r.maze)
           /\ steps' = steps + 1
           /\ IF r.crashed
              THEN pc' = "crashed" /\ path' = r.path
              ELSE \E q \in QuitEvents :
                     IF Finished(r.maze, r.location)
                     THEN /\ path' = Append(r.path, r.location)
                          /\ pc' = IF r.location = <<dimx - 1, dimy - 1>>
                                   THEN "done" ELSE "failed"
                     ELSE /\ path' = r.path
                          /\ pc' = IF q THEN "quit" ELSE "search"
    /\ trace' = Traced(trace, run, [maze |-> maze', path |-> path',
                                    location |-> location', pc |-> pc'])
    /\ UNCHANGED <<dimx, dimy, density, mode, x, y, genPath, keystate, maze0, run>>

(* -------------------------------- game --------------------------------- *)
RECURSIVE FirstMove(_, _, _, _)
\* The loop of get_new_coordinates from the k-th key on; keys is the set of
\* directions whose key is held down.
FirstMove(m, loc, keys, k) ==
    IF k > Len(KEY_PRESS_DIRECTION)
    THEN None
    ELSE LET d == KEY_PRESS_DIRECTION[k]
             n == Move(loc, d)
         IN  IF d \in keys /\ InBounds(n) /\ m[n] # OBSTACLE
             THEN n
             ELSE FirstMove(m, loc, keys, k + 1)

RECURSIVE FirstMoveToEmpty(_, _, _, _)
\* get_new_coordinates' loop with find_next_step's test of the cell (only
\* EMPTY cells are entered).
FirstMoveToEmpty(m, loc, keys, k) ==
    IF k > Len(KEY_PRESS_DIRECTION)
    THEN None
    ELSE LET d == KEY_PRESS_DIRECTION[k]
             n == Move(loc, d)
         IN  IF d \in keys /\ InBounds(n) /\ m[n] = EMPTY
             THEN n
             ELSE FirstMoveToEmpty(m, loc, keys, k + 1)

get_new_coordinates_EmptyOnly(m, loc, keys) == FirstMoveToEmpty(m, loc, keys, 1)

\* What get_new_coordinates returns.
get_new_coordinates(m, loc, keys) == FirstMove(m, loc, keys, 1)

\* MoveRobot not relabelling the cell the robot leaves.
MoveRobot_KeepsRobot(m, loc, res) ==
    IF res = None THEN m ELSE [m EXCEPT ![res] = ROBOT]

\* The grid get_new_coordinates leaves when it returns res.
MoveRobot(m, loc, res) ==
    IF res = None THEN m ELSE [[m EXCEPT ![loc] = ON_PATH] EXCEPT ![res] = ROBOT]

\* game() up to the first test of its loop.
GameStart ==
    /\ pc = "ready"
    /\ maze' = [maze EXCEPT ![location] = ROBOT]
    /\ path' = Append(path, location)
    /\ pc' = "game"
    /\ x' = 0 /\ y' = 0 /\ genPath' = {}
    /\ UNCHANGED <<dimx, dimy, density, mode, location, keystate, new_location,
                   steps, marks, maze0, run, trace>>

\* One iteration of game()'s loop: keys is what get_pressed() reports, q
\* whether the poll left QUIT in eventType.
GameStep ==
    /\ pc = "game"
    /\ Len(path) <= MaxMoves
    /\ \E keys \in SUBSET {UP, DOWN, RIGHT, LEFT}, q \in BOOLEAN :
         LET res == get_new_coordinates(maze, location, keys)
             loc == IF res = None THEN location ELSE res
         IN  /\ keystate' = keys
             /\ new_location' = res
             /\ maze' = MoveRobot(maze, location, res)
             /\ location' = loc
             /\ path' = IF res = None THEN path ELSE Append(path, loc)
             /\ pc' = IF loc = <<dimx - 1, dimy - 1>> THEN "game_done"
                      ELSE IF q THEN "game_quit" ELSE "game"
    /\ UNCHANGED <<dimx, dimy, density, mode, x, y, genPath, steps, marks, maze0, run, trace>>

(* --------------------------- specifications ---------------------------- *)
Next == Construct \/ GenStep \/ GenFill \/ SetMode \/ SolveStart \/ SolveStep

\* A Maze that is constructed and then solved once.
Spec == Init /\ [][Next]_vars

\* A Maze object whose grid was supplied by the caller instead of
\* generate_maze: any grid of EMPTY and OBSTACLE cells.
InitGrid ==
    /\ dimx \in 1 .. MaxDimX
    /\ dimy \in 1 .. MaxDimY
    /\ dimx * dimy <= MaxCells
    /\ density = 0
    /\ mode = GRAPHICAL_LIMITED
    /\ pc = "ready"
    /\ x = 0 /\ y = 0 /\ genPath = {}
    /\ maze \in [Cells(dimx, dimy) -> {EMPTY, OBSTACLE}]
    /\ path = << >>
    /\ location = Origin
    /\ keystate = {}
    /\ new_location = None
    /\ steps = 0
    /\ marks = << >>
    /\ maze0 = NoGrid
    /\ run = 1
    /\ trace = << >>

NextSearch == SetMode \/ SolveStart \/ SolveStep

SpecGrid == InitGrid /\ [][NextSearch]_vars

NextGame == Construct \/ GenStep \/ GenFill \/ GameStart \/ GameStep

\* A Maze that is constructed and then played interactively.
InitGame == Init /\ dimx * dimy <= MaxGameCells

SpecGame == InitGame /\ [][NextGame]_vars

\* A second Maze object is given the grid the first search started on: an
\* empty stack and location (0, 0), as __init__ leaves them.
Restart ==
    /\ pc \in {"done", "failed", "crashed", "quit"}
    /\ run = 1
    /\ run' = 2
    /\ maze' = maze0
    /\ path' = << >>
    /\ location' = <<0, 0>>
    /\ pc' = "ready"
    /\ UNCHANGED <<dimx, dimy, density, mode, x, y, genPath, keystate,
                   new_location, steps, marks, maze0, trace>>

InitTwice == InitGrid /\ dimx * dimy <= MaxTwiceCells

NextTwice == SetMode \/ SolveStart \/ SolveStep \/ Restart

\* Two searches, one after the other, on identical grids.
SpecTwice == InitTwice /\ [][NextTwice]_vars

\* A caller-supplied grid whose start cell is free.
InitOpenGrid == InitGrid /\ maze[Origin] = EMPTY

SpecOpenGrid == InitOpenGrid /\ [][NextSearch]_vars

\* solve() or game() has returned and the caller calls solve() or game()
\* again on the same Maze object: nothing is reset between the calls.
Recall ==
    /\ pc \in {"done", "failed", "quit", "game_done", "game_quit"}
    /\ run < MaxCalls
    /\ run' = run + 1
    /\ pc' = "ready"
    /\ UNCHANGED <<dimx, dimy, density, mode, x, y, genPath, maze, path,
                   location, keystate, new_location, steps, marks, maze0, trace>>

NextReuse ==
    \/ Construct \/ GenStep \/ GenFill
    \/ SolveStart \/ SolveStep \/ GameStart \/ GameStep
    \/ Recall

\* A Maze that is constructed and then used for several calls.
SpecReuse == InitGame /\ [][NextReuse]_vars

\* A call of the constructor with dimensions of at least 1.
InitGen == Init /\ dimx >= 1 /\ dimy >= 1 /\ dimx * dimy <= MaxGenCells

NextGen == Construct \/ GenStep \/ GenFill

\* The construction of a Maze.  The draws of the walk do not reject for
\* ever (an accepted step that stays possible is eventually taken), and the
\* code after the loop runs once the loop has ended.
SpecGen == InitGen /\ [][NextGen]_vars /\ WF_vars(GenStep) /\ WF_vars(GenFill)

(* ------------------------------ properties ----------------------------- *)
Adjacent(a, b) ==
    \/ a[1] = b[1] /\ (a[2] = b[2] + 1 \/ b[2] = a[2] + 1)
    \/ a[2] = b[2] /\ (a[1] = b[1] + 1 \/ b[1] = a[1] + 1)

Neighbours(c) == {n \in Cells(dimx, dimy) : Adjacent(c, n)}

RECURSIVE Closure(_, _)
\* The cells of grid m reachable from the set seen through EMPTY cells.
Closure(m, seen) ==
    LET more == {n \in DOMAIN m : m[n] = EMPTY /\ \E c \in seen : Adjacent(c, n)}
    IN  IF more \subseteq seen THEN seen ELSE Closure(m, seen \cup more)

\* The goal can be reached from the origin through EMPTY cells of grid m.
GoalReachable(m) ==
    /\ m[Origin] = EMPTY
    /\ Goal \in Closure(m, {Origin})

\* solve() has stopped by itself: returned (done, failed) or raised (crashed).
Terminated == pc \in {"done", "failed", "crashed"}

\* The arguments the specification calls valid.
ValidArgs == dimx >= 1 /\ dimy >= 1 /\ density >= 0 /\ density <= 100

\* C1 (as claimed): on a generated grid (width, height >= 1, density in
\* [0,1]) solve() never crashes and never fails: when it stops by itself it
\* has succeeded, the location being the goal.
C1_Solvability ==
    (ValidArgs /\ Terminated) => (pc = "done" /\ location = Goal)

\* C2: when solve() ends with the goal reached, the returned stack, bottom
\* to top, starts at (0,0), ends at the goal, has no duplicates, stays in
\* bounds and off obstacles, and steps between orthogonally adjacent cells.
C2_PathValidity ==
    (pc = "done" /\ location = Goal) =>
        /\ Len(path) >= 1
        /\ path[1] = <<0, 0>>
        /\ path[Len(path)] = <<dimx - 1, dimy - 1>>
        /\ \A i \in 1 .. Len(path) :
             /\ InBounds(path[i])
             /\ maze[path[i]] # OBSTACLE
             /\ maze0[path[i]] # OBSTACLE
        /\ \A i, j \in 1 .. Len(path) : i # j => path[i] # path[j]
        /\ \A i \in 1 .. (Len(path) - 1) : Adjacent(path[i], path[i + 1])

\* A search that backtracked and still returned a path of four or more cells.
C2_Witness ==
    /\ pc = "done" /\ location = Goal
    /\ Len(path) >= 4
    /\ steps > Len(path)

RECURSIVE MonotoneChain(_)
\* EMPTY cells join c to the goal by steps that increase the row or the
\* column by one.
MonotoneChain(c) ==
    /\ InBounds(c)
    /\ maze[c] = EMPTY
    /\ \/ c = Goal
       \/ MonotoneChain(<<c[1] + 1, c[2]>>)
       \/ MonotoneChain(<<c[1], c[2] + 1>>)

\* C3: the grid generate_maze leaves has the origin, the goal and every
\* walked cell EMPTY, and a monotone chain of EMPTY cells from origin to goal,
\* whatever the draws and the density.
C3_GeneratorGuarantee ==
    pc = "ready" =>
        /\ maze[<<0, 0>>] = EMPTY
        /\ maze[<<dimx - 1, dimy - 1>>] = EMPTY
        /\ \A c \in genPath : maze[c] = EMPTY
        /\ MonotoneChain(<<0, 0>>)

\* A generated grid with density 1: every obstacle draw succeeded, and only
\* the walked cells are EMPTY.
C3_Witness ==
    /\ pc = "ready"
    /\ density = 100
    /\ dimx >= 2 /\ dimy >= 2
    /\ \A c \in DOMAIN maze : (maze[c] = EMPTY) = (c \in genPath)

\* C4 (as claimed): a search on a grid whose goal cannot be reached from the
\* origin ends in the Failed state with an empty path, and does not crash.
C4_UnsolvableFails ==
    (Terminated /\ maze0[Origin] = EMPTY /\ ~GoalReachable(maze0)) =>
        (pc = "failed" /\ path = << >>)

\* C5 (as claimed): during one search no cell is marked ROBOT more than once.
C5_MarkedOnce ==
    pc \in {"search", "quit", "done", "failed", "crashed"} =>
        \A c \in DOMAIN marks : marks[c] <= 1

\* C5 (amended): a step of the search marks a cell ROBOT only when the cell
\* is EMPTY (an advance) or is the ON_PATH cell on top of the stack (a
\* backtrack); a cell that is not EMPTY never becomes EMPTY again; and the
\* cell the robot leaves becomes ON_PATH or EXPLORED.
C5_EnteredOnce ==
    [][pc = "search" =>
         \A c \in DOMAIN maze :
            /\ maze[c] # EMPTY => maze'[c] # EMPTY
            /\ (maze[c] # ROBOT /\ maze'[c] = ROBOT) =>
                 \/ maze[c] = EMPTY
                 \/ maze[c] = ON_PATH /\ path # << >> /\ c = path[Len(path)]
            /\ (maze[c] = ROBOT /\ maze'[c] # ROBOT) =>
                 maze'[c] \in {ON_PATH, EXPLORED}]_vars

\* A finished search that marked some cell ROBOT twice or more.
C5_Witness ==
    /\ pc = "done"
    /\ \E c \in DOMAIN marks : marks[c] >= 2

\* C6: a search performs at most 2 * dimx * dimy iterations of its loop.
C6_BoundedWork ==
    pc \in {"search", "quit", "done", "failed", "crashed"} =>
        steps <= 2 * dimx * dimy

\* A search that took more iterations than the grid has cells.
C6_Witness ==
    /\ Terminated
    /\ dimx * dimy >= 4
    /\ steps > dimx * dimy

\* The first of the cells below, right of, above and left of loc (in that
\* order) that is in bounds and EMPTY in grid m; None when there is none.
FirstByPriority(m, loc) ==
    LET down  == <<loc[1] + 1, loc[2]>>
        right == <<loc[1], loc[2] + 1>>
        up    == <<loc[1] - 1, loc[2]>>
        left  == <<loc[1], loc[2] - 1>>
        free(c) == c \in DOMAIN m /\ m[c] = EMPTY
    IN  IF free(down) THEN down
        ELSE IF free(right) THEN right
        ELSE IF free(up) THEN up
        ELSE IF free(left) THEN left
        ELSE None

\* C7: every iteration that finds an in-bounds EMPTY neighbour moves to the
\* first one in the order row+1, column+1, row-1, column-1; and on the 2x2
\* grid of EMPTY cells solve() returns [(0,0), (1,0), (1,1)].
C7_NeighborPriority ==
    /\ [][(pc = "search" /\ steps' = steps + 1
             /\ FirstByPriority(maze, location) # None) =>
          (location' = FirstByPriority(maze, location)
             /\ maze'[location'] = ROBOT)]_vars
    /\ []((pc = "done" /\ dimx = 2 /\ dimy = 2
             /\ \A c \in DOMAIN maze0 : maze0[c] = EMPTY) =>
          path = << <<0, 0>>, <<1, 0>>, <<1, 1>> >>)

\* The search of the 2x2 grid of EMPTY cells has ended.
C7_Witness ==
    /\ pc = "done" /\ dimx = 2 /\ dimy = 2
    /\ \A c \in DOMAIN maze0 : maze0[c] = EMPTY
    /\ steps = 2

\* C8: with one direction d requested, get_new_coordinates returns the
\* neighbour in direction d exactly when it is in bounds and not OBSTACLE;
\* otherwise it returns None and changes neither the grid nor the location.
C8_SingleStep ==
    [][\A d \in {UP, DOWN, RIGHT, LEFT} :
         (pc = "game" /\ keystate' = {d}) =>
            LET n == <<location[1] + d.x, location[2] + d.y>>
            IN  IF n \in DOMAIN maze /\ maze[n] # OBSTACLE
                THEN new_location' = n
                ELSE new_location' = None /\ maze' = maze /\ location' = location
      ]_vars

\* A request to move right, from a cell whose right neighbour is an
\* OBSTACLE, was answered None.
C8_Witness ==
    /\ pc = "game"
    /\ keystate = {RIGHT}
    /\ new_location = None
    /\ <<location[1], location[2] + 1>> \in DOMAIN maze
    /\ maze[<<location[1], location[2] + 1>>] = OBSTACLE

\* C9 (as claimed): a call with a dimension below 1 or a density outside
\* [0,1] is rejected at call time: it never enters generate_maze's loop and
\* builds no grid.
C9_InvalidArgumentReported ==
    ~ValidArgs => (pc \in {"new", "invalid_argument"} /\ maze = NoGrid)

\* C10 (as claimed): once the search has terminated no cell is ROBOT, and
\* every cell of the returned path, the goal included, is ON_PATH.
C10_NoRobotAfterSearch ==
    Terminated =>
        /\ \A c \in DOMAIN maze : maze[c] # ROBOT
        /\ pc = "done" => \A i \in 1 .. Len(path) : maze[path[i]] = ON_PATH

\* C10 (amended): when the search ends with the goal reached, exactly one
\* cell is still ROBOT, the goal, which is the current location and the top
\* of the returned path; every other cell of the path is ON_PATH.
C10_GoalStaysRobot ==
    pc = "done" =>
        /\ location = Goal
        /\ path[Len(path)] = Goal
        /\ \A c \in DOMAIN maze : (maze[c] = ROBOT) = (c = Goal)
        /\ \A i \in 1 .. (Len(path) - 1) : maze[path[i]] = ON_PATH

\* A search that returned a path of three or more cells.
C10_Witness ==
    /\ pc = "done"
    /\ Len(path) >= 3

\* The state the running search is in, as trace records it.
Snapshot == [maze |-> maze, path |-> path, location |-> location, pc |-> pc]

InSearch == pc \in {"search", "quit", "done", "failed", "crashed"}

\* C12: after every step the stack, bottom to top, is a duplicate-free chain
\* of adjacent cells from the origin whose top is the current location or
\* next to it (the empty stack: the robot is on the origin), and each of its
\* cells was EMPTY when the search began and is ON_PATH or ROBOT now.
C12_StackInvariant ==
    InSearch =>
        /\ \A i \in 1 .. Len(path) :
             /\ InBounds(path[i])
             /\ maze0[path[i]] = EMPTY
             /\ maze[path[i]] \in {ON_PATH, ROBOT}
        /\ \A i, j \in 1 .. Len(path) : i # j => path[i] # path[j]
        /\ \A i \in 1 .. (Len(path) - 1) : Adjacent(path[i], path[i + 1])
        /\ IF path = << >>
           THEN location = <<0, 0>>
           ELSE /\ path[1] = <<0, 0>>
                /\ path[Len(path)] = location \/ Adjacent(path[Len(path)], location)

\* A search still running, with three cells on the stack, that has
\* backtracked before.
C12_Witness ==
    /\ pc = "search"
    /\ Len(path) >= 3
    /\ \E c \in DOMAIN maze : maze[c] = EXPLORED

\* C13: while the search is active exactly one cell is ROBOT, the current
\* location.
C13_OneRobot ==
    pc = "search" => \A c \in DOMAIN maze : (maze[c] = ROBOT) = (c = location)

\* An active search that has just backtracked onto a cell of the stack.
C13_Witness ==
    /\ pc = "search"
    /\ steps >= 3
    /\ new_location = None
    /\ maze[location] = ROBOT

\* C14 (as claimed): on a grid with an EMPTY origin, the origin is EXPLORED
\* only when every EMPTY cell reachable from it has been visited, and a
\* search whose goal is reachable ends Succeeded.
C14_FailsOnlyWithoutPath ==
    InSearch =>
        /\ maze[Origin] = EXPLORED =>
             \A c \in Closure(maze0, {Origin}) : maze[c] # EMPTY
        /\ (Terminated /\ GoalReachable(maze0)) => pc = "done"

\* C15 (as claimed): every search starts with an empty stack, the second
\* call of solve() and a solve() that follows game() included.
C15_StackEmptyAtStart ==
    (pc = "search" /\ steps = 0) => path = << >>

\* C16: an iteration of the path-laying loop either changes nothing (a
\* rejected draw) or adds one to exactly one of x and y, reaching a cell of
\* the grid not walked before; the accepted steps number x + y so far and
\* (dimx-1) + (dimy-1) when the loop ends, which it does at (dimx-1, dimy-1);
\* and the loop does end.
C16_GeneratorWalk ==
    /\ [][(pc = "walk" /\ pc' = "walk") =>
            \/ UNCHANGED <<x, y, genPath>>
            \/ /\ (x' = x + 1 /\ y' = y) \/ (x' = x /\ y' = y + 1)
               /\ 0 <= x' /\ x' < dimx /\ 0 <= y' /\ y' < dimy
               /\ <<x', y'>> \notin genPath
               /\ genPath' = genPath \cup {<<x', y'>>}]_vars
    /\ [](pc = "walk" => Cardinality(genPath) = x + y + 1)
    /\ [](pc = "ready" =>
            /\ <<x, y>> = <<dimx - 1, dimy - 1>>
            /\ Cardinality(genPath) = (dimx - 1) + (dimy - 1) + 1)
    /\ (pc = "walk") ~> (pc = "ready")

\* A finished walk on the 3x3 grid that turned at the centre cell.
C16_Witness ==
    /\ pc = "ready"
    /\ dimx = 3 /\ dimy = 3
    /\ <<1, 1>> \in genPath
    /\ Cardinality(genPath) = 5

\* C17: a cell that is EXPLORED or OBSTACLE keeps its label and does not
\* become the current location; no cell becomes EMPTY again; no cell is
\* turned into an OBSTACLE.
C17_ExploredObstacleFinal ==
    [][(pc \in {"ready", "search"}) =>
         (\A c \in DOMAIN maze :
            /\ maze[c] \in {EXPLORED, OBSTACLE} =>
                 (maze'[c] = maze[c] /\ location' # c)
            /\ maze[c] # EMPTY => maze'[c] # EMPTY
            /\ maze[c] # OBSTACLE => maze'[c] # OBSTACLE)]_vars

\* A search that ended on a grid with an OBSTACLE, leaving a cell EXPLORED.
C17_Witness ==
    /\ pc = "done"
    /\ \E c \in DOMAIN maze : maze[c] = EXPLORED
    /\ \E c \in DOMAIN maze : maze[c] = OBSTACLE

Range(f) == {f[i] : i \in DOMAIN f}

OnPathCells == {c \in DOMAIN maze : maze[c] = ON_PATH}

\* The cells __str__ renders '*'.
StarCells == {c \in DOMAIN maze : maze[c] = ON_PATH \/ maze[c] = ROBOT}

\* The cells the search has entered and that are not on the stack.
OffPathVisited ==
    {c \in DOMAIN maze : maze0[c] = EMPTY /\ maze[c] # EMPTY /\ c \notin Range(path)}

\* C18 (as claimed): after every step the ON_PATH cells are exactly the
\* locations on the stack; and after a successful search the '*' cells are
\* exactly the locations of the returned path, every other visited cell
\* being EXPLORED.
C18_LabelsMatchStack ==
    InSearch =>
        /\ OnPathCells = Range(path)
        /\ pc = "done" =>
             /\ StarCells = Range(path)
             /\ \A c \in OffPathVisited : maze[c] = EXPLORED

\* C18 (amended): after every step that leaves the search running (or ends
\* it without the goal) the ON_PATH cells are exactly the locations on the
\* stack; the step that reaches the goal also pushes the goal, which stays
\* ROBOT, so the stack is then the ON_PATH cells and the goal; the '*' cells
\* are exactly the locations of the returned path and every other visited
\* cell is EXPLORED.
C18_LabelsMatchStackButGoal ==
    InSearch =>
        IF pc = "done"
        THEN /\ Range(path) = OnPathCells \cup {Goal}
             /\ maze[Goal] = ROBOT
             /\ StarCells = Range(path)
             /\ \A c \in OffPathVisited : maze[c] = EXPLORED
        ELSE OnPathCells = Range(path)

\* A successful search that left a dead end EXPLORED.
C18_Witness ==
    /\ pc = "done"
    /\ Len(path) >= 3
    /\ \E c \in DOMAIN maze : maze[c] = EXPLORED

InGame == pc \in {"game", "game_done", "game_quit"}

\* C19: during and after game() the robot's location is a cell of the grid,
\* it is the one cell labelled ROBOT, every other cell the robot has been on
\* is ON_PATH, and no step of game() changes which cells are OBSTACLE.
C19_GameMovementSafe ==
    /\ [](InGame =>
            /\ InBounds(location)
            /\ \A c \in DOMAIN maze : (maze[c] = ROBOT) = (c = location)
            /\ \A i \in 1 .. Len(path) :
                 path[i] # location => maze[path[i]] = ON_PATH)
    /\ [][(pc \in {"ready", "game"}) =>
            (\A c \in DOMAIN maze :
                (maze'[c] = OBSTACLE) = (maze[c] = OBSTACLE))]_vars

\* The robot has walked back onto a cell it left, on a grid with an OBSTACLE.
C19_Witness ==
    /\ pc = "game"
    /\ Len(path) >= 3
    /\ \E i \in 1 .. (Len(path) - 1) : path[i] = location
    /\ \E c \in DOMAIN maze : maze[c] = OBSTACLE

====
